---- MODULE Spec2Model ----
(***************************************************************************)
(* A model of strudy's command line (strudy.js) and of its issue-filing    *)
(* script.  Two programs, two specifications:                               *)
(*   SpecStrudy  one run of the `strudy [options] <report>` action handler  *)
(*   SpecIssues  runs of the script that drafts one issue per specification *)
(***************************************************************************)
EXTENDS Naturals, Sequences, FiniteSets, TLC

VARIABLES
  \* ---- strudy.js: the inputs of a run
  options,      \* the parsed command-line options (commander)
  report,       \* the <report> argument, a path
  readable,     \* the paths fs.access(path, R_OK) succeeds on
  fileContent,  \* what the file the report resolves to holds
  \* ---- strudy.js: the handler's locals and the process
  pc,           \* where the async handler stands
  edReport,
  trReport,
  study,
  res,
  calls,        \* calls made to the file system and to the other modules, in order
  stdout,       \* what console.log wrote
  stderr,       \* what console.error wrote
  exitCode,     \* <<code>> once the process has ended, <<>> while it runs
  \* ---- the issue script
  results,      \* studyBackrefs' results, in key order
  issueFs,      \* the working tree under issues/: moniker -> entry
  head,         \* git: the branch checked out
  branches,     \* git: branch name -> set of monikers whose file its tip tracks
  index,        \* git: the staged files
  commits,      \* git: the commits made, in order
  currentBranch,
  cb,           \* position of each forEach callback
  run,          \* number of times the script was started
  atStart,      \* the working tree and branches when the current run started
  writes,       \* the fs.writeFile calls, in order
  gitLog,       \* the git commands executed, in order
  bailed        \* callbacks of the current run that found the issue path taken

strudyVars == <<options, report, readable, fileContent, pc, edReport, trReport,
                study, res, calls, stdout, stderr, exitCode>>
issueVars == <<results, issueFs, head, branches, index, commits, currentBranch,
               cb, run, atStart, writes, gitLog, bailed>>
vars == <<strudyVars, issueVars>>

(***************************************************************************)
(* Values                                                                  *)
(***************************************************************************)
\* An option that is absent (undefined) is falsy, as is an empty value; the
\* handler only ever tests these options for truthiness or membership, so the
\* two behave alike and are one value here.
Unset == ""
NoPath == <<>>
Running == <<>>
null == [type |-> "null"]

Truthy(v) == v # Unset
TruthyPath(p) == p # NoPath

\* Paths are sequences of tokens: separators and extensions are tokens.
EndsWithJson(p) == Len(p) > 0 /\ p[Len(p)] = ".json"
Join(p, name) == p \o <<"/">> \o name
IndexJson == <<"index", ".json">>

ReportArgs == { <<"report", ".json">>, <<"data">> }
TrArgs == { NoPath, <<"tr", ".json">> }
Formats == { Unset, "json", "markdown", "html", "xml" }
DiffArgs == { Unset, "ref.json" }
Shortnames == { "dom", "fetch" }
SpecArgs == { NoPath, <<"all">>, <<"dom">> }

Options ==
  [ format : Formats, diff : DiffArgs, spec : SpecArgs, dep : BOOLEAN,
    onlynew : BOOLEAN, perissue : BOOLEAN, tr : TrArgs ]

\* The file system entries a run may look at, given its arguments; a file
\* that is readable lies in a folder that is.
FolderFiles(r) ==
  { Join(r, <<"ed">>), Join(Join(r, <<"ed">>), IndexJson), Join(r, IndexJson),
    Join(r, <<"tr">>), Join(Join(r, <<"tr">>), IndexJson) }

Relevant(r, o) ==
  (IF EndsWithJson(r) THEN {r} ELSE FolderFiles(r))
    \cup (IF TruthyPath(o.tr) THEN {o.tr} ELSE {})

ParentClosed(S, r) ==
  /\ Join(Join(r, <<"ed">>), IndexJson) \in S => Join(r, <<"ed">>) \in S
  /\ Join(Join(r, <<"tr">>), IndexJson) \in S => Join(r, <<"tr">>) \in S

\* A report file: its kind, the byte offset of its "type" member, its specs.
BufSize == 1024
DiscriminatorLen == 15
TypeOffsets == { 4, 1009, 1010 }
Contents ==
  { [type |-> "crawl", typeAt |-> 4, specs |-> Shortnames] }
    \cup { [type |-> "study", typeAt |-> k, specs |-> Shortnames] : k \in TypeOffsets }

(***************************************************************************)
(* strudy.js helpers                                                       *)
(***************************************************************************)
exists(file) == file \in readable

\* Reads the first 1024 bytes and matches /"type"\s*:\s*"study"/ in them.
\* The serialized member `"type": "study"` is 15 bytes long and must lie
\* whole within the buffer to be matched.
isStudyReport(c) ==
  c.type = "study" /\ c.typeAt + DiscriminatorLen <= BufSize

\* require() of the report, resolved from the working directory.
requireFromWorkingDirectory(c) ==
  [type |-> c.type, results |-> c.specs]

\* The analysis: the study of a crawl, restricted to the include list.
Selected(include) ==
  IF include = NoPath \/ (\E i \in 1..Len(include) : include[i] = "all")
  THEN Shortnames
  ELSE { include[i] : i \in 1..Len(include) }

studyCrawl(c, studyOptions) ==
  [type |-> "study", results |-> c.specs \cap Selected(studyOptions.include)]

generateReport(s, generateOptions) ==
  [format |-> "markdown", study |-> s, options |-> generateOptions]

JSONstringify(s) == [format |-> "json", study |-> s]
pandoc(markdown) == [format |-> "html", study |-> markdown.study,
                     options |-> markdown.options]

Call(op, arg) == [op |-> op, arg |-> arg]
Called(op) == { i \in 1..Len(calls) : calls[i].op = op }

(***************************************************************************)
(* strudy.js: the action handler, one action per stretch between awaits     *)
(***************************************************************************)
\* Lines 166-187: the first option check that fails, "" when all pass.
ValidationErrorNoDepDiff(o) ==
  IF Truthy(o.format) /\ o.format \notin {"json", "markdown", "html"}
    THEN "Unsupported --format option"
  ELSE IF Truthy(o.diff) /\ Truthy(o.format) /\ o.format # "markdown"
    THEN "Diff reports are always in markdown"
  ELSE IF Truthy(o.diff) /\ o.perissue
    THEN "The --diff and --perissue options cannot both be set"
  ELSE IF o.perissue /\ o.format \notin {"markdown", "html"}
    THEN "The --format option must be markdown or html when --perissue is set"
  ELSE Unset

ValidationError(o) ==
  IF Truthy(o.format) /\ o.format \notin {"json", "markdown", "html"}
    THEN "Unsupported --format option"
  ELSE IF Truthy(o.diff) /\ Truthy(o.format) /\ o.format # "markdown"
    THEN "Diff reports are always in markdown"
  ELSE IF Truthy(o.diff) /\ o.perissue
    THEN "The --diff and --perissue options cannot both be set"
  ELSE IF o.perissue /\ o.format \notin {"markdown", "html"}
    THEN "The --format option must be markdown or html when --perissue is set"
  ELSE IF o.dep /\ Truthy(o.diff)
    THEN "The --dep and --diff options cannot both be set"
  ELSE Unset

Exit(msg, code) ==
  /\ stderr' = Append(stderr, msg)
  /\ exitCode' = <<code>>
  /\ pc' = "exited"

\* Lines 166-192: validation, then the first exists() is issued.
Validate ==
  /\ pc = "start"
  /\ IF ValidationError(options) # Unset
     THEN /\ Exit(ValidationError(options), 2)
          /\ UNCHANGED <<edReport, trReport, calls>>
     ELSE /\ edReport' = report
          /\ trReport' = options.tr
          /\ IF ~EndsWithJson(report)
             THEN /\ calls' = Append(calls, Call("exists", Join(report, <<"ed">>)))
                  /\ pc' = "existsEd"
             ELSE /\ calls' = Append(calls, Call("exists", report))
                  /\ pc' = "existsReport"
          /\ UNCHANGED <<stderr, exitCode>>
  /\ UNCHANGED <<options, report, readable, fileContent, study, res, stdout>>
  /\ UNCHANGED issueVars

\* Lines 192-200: exists(<report>/ed) resolved.
ExistsEd ==
  /\ pc = "existsEd"
  /\ IF exists(Join(report, <<"ed">>))
     THEN IF ~TruthyPath(trReport)
          THEN /\ edReport' = Join(report, <<"ed">>)
               /\ calls' = Append(calls, Call("exists", Join(report, <<"tr">>)))
               /\ pc' = "existsTrFolder"
          ELSE /\ edReport' = Join(Join(report, <<"ed">>), IndexJson)
               /\ calls' = Append(calls, Call("exists", edReport'))
               /\ pc' = "existsReport"
     ELSE /\ edReport' = Join(edReport, IndexJson)
          /\ calls' = Append(calls, Call("exists", edReport'))
          /\ pc' = "existsReport"
  /\ UNCHANGED <<options, report, readable, fileContent, trReport, study, res,
                 stdout, stderr, exitCode>>
  /\ UNCHANGED issueVars

\* Lines 194-200: exists(<report>/tr) resolved.
ExistsTrFolder ==
  /\ pc = "existsTrFolder"
  /\ trReport' = IF exists(Join(report, <<"tr">>))
                 THEN Join(report, <<"tr">>) ELSE trReport
  /\ edReport' = Join(edReport, IndexJson)
  /\ calls' = Append(calls, Call("exists", edReport'))
  /\ pc' = "existsReport"
  /\ UNCHANGED <<options, report, readable, fileContent, study, res,
                 stdout, stderr, exitCode>>
  /\ UNCHANGED issueVars

\* ExistsReport with the process.exit(2) of line 202 left out.
ExistsReportNoExit ==
  /\ pc = "existsReport"
  /\ stderr' = IF ~exists(edReport)
               THEN Append(stderr, "Could not find/access crawl/study report")
               ELSE stderr
  /\ IF TruthyPath(trReport)
     THEN /\ trReport' = IF ~EndsWithJson(trReport)
                         THEN Join(trReport, IndexJson) ELSE trReport
          /\ calls' = Append(calls, Call("exists", trReport'))
          /\ pc' = "existsTr"
     ELSE /\ UNCHANGED trReport
          /\ calls' = Append(calls, Call("isStudyReport", edReport))
          /\ pc' = "sniff"
  /\ UNCHANGED <<options, report, readable, fileContent, edReport, study, res,
                 stdout, exitCode>>
  /\ UNCHANGED issueVars

\* Lines 200-208 and 218: exists(edReport) resolved.
ExistsReport ==
  /\ pc = "existsReport"
  /\ IF ~exists(edReport)
     THEN /\ Exit("Could not find/access crawl/study report", 2)
          /\ UNCHANGED <<trReport, calls>>
     ELSE /\ UNCHANGED <<stderr, exitCode>>
          /\ IF TruthyPath(trReport)
             THEN /\ trReport' = IF ~EndsWithJson(trReport)
                                 THEN Join(trReport, IndexJson) ELSE trReport
                  /\ calls' = Append(calls, Call("exists", trReport'))
                  /\ pc' = "existsTr"
             ELSE /\ UNCHANGED trReport
                  /\ calls' = Append(calls, Call("isStudyReport", edReport))
                  /\ pc' = "sniff"
  /\ UNCHANGED <<options, report, readable, fileContent, edReport, study, res, stdout>>
  /\ UNCHANGED issueVars

\* Lines 208-218: exists(trReport) resolved.
ExistsTr ==
  /\ pc = "existsTr"
  /\ IF ~exists(trReport)
     THEN /\ Exit("Could not find/access TR crawl report", 2)
          /\ UNCHANGED calls
     ELSE /\ calls' = Append(calls, Call("isStudyReport", edReport))
          /\ pc' = "sniff"
          /\ UNCHANGED <<stderr, exitCode>>
  /\ UNCHANGED <<options, report, readable, fileContent, edReport, trReport,
                 study, res, stdout>>
  /\ UNCHANGED issueVars

\* Lines 231-268 up to the next await: the report is generated from the study,
\* or the study itself is printed.
Produce(s, c) ==
  IF Truthy(options.diff) \/ options.dep
  THEN /\ calls' = Append(c, Call("generateReport",
                      [study |-> s,
                       options |-> [depReport |-> options.dep,
                                    diffReport |-> Truthy(options.diff),
                                    refStudyFile |-> options.diff,
                                    onlyNew |-> options.onlynew]]))
       /\ pc' = "generate"
       /\ UNCHANGED <<res, stdout, exitCode>>
  ELSE IF Truthy(options.format) /\ options.format # "json"
  THEN /\ calls' = Append(c, Call("generateReport",
                      [study |-> s, options |-> [perSpec |-> ~options.perissue]]))
       /\ pc' = "generate"
       /\ UNCHANGED <<res, stdout, exitCode>>
  ELSE /\ calls' = c
       /\ res' = JSONstringify(s)
       /\ stdout' = Append(stdout, res')
       /\ exitCode' = <<0>>
       /\ pc' = "done"

\* Lines 218-229: the sniff resolved; a study is loaded, a crawl is studied.
Sniff ==
  /\ pc = "sniff"
  /\ IF isStudyReport(fileContent)
     THEN /\ study' = requireFromWorkingDirectory(fileContent)
          /\ Produce(study', Append(calls, Call("require", edReport)))
     ELSE /\ calls' = Append(calls, Call("studyCrawl",
                         [report |-> edReport,
                          options |-> [include |-> options.spec,
                                       trResults |-> trReport]]))
          /\ pc' = "studyCrawl"
          /\ UNCHANGED <<study, res, stdout, exitCode>>
  /\ UNCHANGED <<options, report, readable, fileContent, edReport, trReport, stderr>>
  /\ UNCHANGED issueVars

\* Line 228 resolved.
StudyCrawlDone ==
  /\ pc = "studyCrawl"
  /\ study' = studyCrawl(fileContent, [include |-> options.spec, trResults |-> trReport])
  /\ Produce(study', calls)
  /\ UNCHANGED <<options, report, readable, fileContent, edReport, trReport, stderr>>
  /\ UNCHANGED issueVars

\* Lines 234 and 244 resolved.
GenerateDone ==
  /\ pc = "generate"
  /\ LET generated == generateReport(study, calls[Len(calls)].arg.options) IN
     IF Truthy(options.diff) \/ options.dep \/ options.format # "html"
     THEN /\ res' = generated
          /\ stdout' = Append(stdout, res')
          /\ exitCode' = <<0>>
          /\ pc' = "done"
          /\ UNCHANGED calls
     ELSE /\ calls' = Append(calls, Call("pandoc", generated))
          /\ pc' = "pandoc"
          /\ UNCHANGED <<res, stdout, exitCode>>
  /\ UNCHANGED <<options, report, readable, fileContent, edReport, trReport,
                 study, stderr>>
  /\ UNCHANGED issueVars

\* Line 257 resolved.
PandocDone ==
  /\ pc = "pandoc"
  /\ res' = pandoc(calls[Len(calls)].arg)
  /\ stdout' = Append(stdout, res')
  /\ exitCode' = <<0>>
  /\ pc' = "done"
  /\ UNCHANGED <<options, report, readable, fileContent, edReport, trReport,
                 study, calls, stderr>>
  /\ UNCHANGED issueVars

\* An awaited call rejects (unreadable crawl, missing reference study, pandoc
\* error): the handler's promise rejects and the process ends with code 1.
Rejected ==
  /\ pc \in {"studyCrawl", "generate", "pandoc"}
  /\ Exit("unhandled rejection", 1)
  /\ UNCHANGED <<options, report, readable, fileContent, edReport, trReport,
                 study, res, calls, stdout>>
  /\ UNCHANGED issueVars

IssuesIdle ==
  /\ results = <<>>
  /\ issueFs = <<>>
  /\ head = <<"main">>
  /\ branches = [b \in {<<"main">>} |-> {}]
  /\ index = {}
  /\ commits = <<>>
  /\ currentBranch = NoPath
  /\ cb = <<>>
  /\ run = 0
  /\ atStart = [issueFs |-> <<>>, branches |-> [b \in {<<"main">>} |-> {}],
                commits |-> <<>>]
  /\ writes = <<>>
  /\ gitLog = <<>>
  /\ bailed = {}

InitStrudy ==
  /\ options \in Options
  /\ report \in ReportArgs
  /\ readable \in { S \in SUBSET Relevant(report, options) : ParentClosed(S, report) }
  /\ fileContent \in Contents
  /\ pc = "start"
  /\ edReport = NoPath
  /\ trReport = NoPath
  /\ study = null
  /\ res = null
  /\ calls = <<>>
  /\ stdout = <<>>
  /\ stderr = <<>>
  /\ exitCode = Running
  /\ IssuesIdle

NextStrudy ==
  \/ Validate
  \/ ExistsEd
  \/ ExistsTrFolder
  \/ ExistsReport
  \/ ExistsTr
  \/ Sniff
  \/ StudyCrawlDone
  \/ GenerateDone
  \/ PandocDone
  \/ Rejected

SpecStrudy == InitStrudy /\ [][NextStrudy]_vars

(***************************************************************************)
(* The issue script: values                                                *)
(***************************************************************************)
MaxSpecs == 3
MaxRuns == 2
SliceEnd == 2

ShortNames == <<"dom", "fetch", "html", "url", "uievents">>

\* URLs are sequences of tokens, so that a regular expression without
\* anchors is a search for a run of tokens.
TRLink == <<"https://", "www.", "w3.org", "/", "TR", "/", "dom", "/", "#a">>
EDLink == <<"https://", "w3c.github.io", "/", "dom", "/", "#b">>
TRPattern == <<"w3.org", "/", "TR", "/">>

match(u, pattern) ==
  \E i \in 1..Len(u) :
    /\ i + Len(pattern) - 1 <= Len(u)
    /\ SubSeq(u, i, i + Len(pattern) - 1) = pattern

LinkLists == { <<TRLink>>, <<EDLink>>, <<TRLink, EDLink>> }

\* A specification's entry in the results; brokenLinks may be missing.
SpecResults(k) ==
  { [shortname |-> ShortNames[k], title |-> ShortNames[k]] }
    \cup { [shortname |-> ShortNames[k], title |-> ShortNames[k], brokenLinks |-> l] :
           l \in LinkLists }

ResultsOfLen(n) ==
  { r \in [1..n -> UNION { SpecResults(k) : k \in 1..n }] :
      \A k \in 1..n : r[k] \in SpecResults(k) }

issueMoniker(specResult) == <<specResult.shortname, "-brokenlinks">>
issueFilename(specResult) == <<"issues/">> \o issueMoniker(specResult) \o <<".md">>

Absent == [kind |-> "absent"]
Folder == [kind |-> "folder"]
OldFile == [kind |-> "file", content |-> [title |-> "", links |-> <<>>]]

Filenames(r) == { issueFilename(r[k]) : k \in 1..Len(r) }

(***************************************************************************)
(* The issue script: helpers                                               *)
(***************************************************************************)
NotExcluded(u) == ~match(u, TRPattern)

\* Line 47 without the filter.
brokenLinksUnfiltered(specResult) ==
  IF "brokenLinks" \in DOMAIN specResult THEN specResult.brokenLinks ELSE <<>>

\* Line 47: specResult.brokenLinks?.filter(u => !u.match(/w3\.org\/TR\//)) || []
brokenLinksOf(specResult) ==
  IF "brokenLinks" \in DOMAIN specResult
  THEN SelectSeq(specResult.brokenLinks, NotExcluded)
  ELSE <<>>

\* Lines 76-84.
issueReport(specResult, brokenLinks) ==
  [title |-> specResult.title, links |-> brokenLinks]

\* Line 44: Object.keys(results).slice(0,2)
Sliced == 1..(IF Len(results) < SliceEnd THEN Len(results) ELSE SliceEnd)

\* Line 64: the pull request lookup is short-circuited to an empty list.
pullrequests(moniker) == <<>>

Pending(i) == cb[i] \in {"stat", "write", "git"}
Settled == \A i \in DOMAIN cb : ~Pending(i)

(***************************************************************************)
(* The issue script: actions                                               *)
(***************************************************************************)
\* Lines 41-53: the script starts; forEach runs each callback up to its first
\* await.
Main ==
  /\ run < MaxRuns
  /\ Settled
  /\ run' = run + 1
  /\ currentBranch' = head
  /\ gitLog' = Append(gitLog, [cmd |-> "branch --show-current", spec |-> 0, run |-> run'])
  /\ cb' = [i \in Sliced |->
              IF Len(brokenLinksOf(results[i])) > 0 THEN "stat" ELSE "done"]
  /\ atStart' = [issueFs |-> issueFs, branches |-> branches, commits |-> commits]
  /\ bailed' = {}
  /\ UNCHANGED <<results, issueFs, head, branches, index, commits, writes>>
  /\ UNCHANGED strudyVars

\* Lines 52-85: fs.stat settled; the callback bails when the path exists,
\* else builds the report and starts writing it.
StatDone(i) ==
  /\ cb[i] = "stat"
  /\ IF issueFs[issueFilename(results[i])] # Absent
     THEN /\ cb' = [cb EXCEPT ![i] = "done"]
          /\ bailed' = bailed \cup {i}
     ELSE IF Len(pullrequests(issueMoniker(results[i]))) > 0
     THEN /\ cb' = [cb EXCEPT ![i] = "done"]
          /\ bailed' = bailed \cup {i}
     ELSE /\ cb' = [cb EXCEPT ![i] = "write"]
          /\ UNCHANGED bailed
  /\ UNCHANGED <<results, issueFs, head, branches, index, commits, currentBranch,
                 run, atStart, writes, gitLog>>
  /\ UNCHANGED strudyVars

\* Line 85: fs.writeFile settled.
WriteDone(i) ==
  /\ cb[i] = "write"
  /\ LET report_ == issueReport(results[i], brokenLinksOf(results[i])) IN
     /\ issueFs' = [issueFs EXCEPT ![issueFilename(results[i])] =
                      [kind |-> "file", content |-> report_]]
     /\ writes' = Append(writes, [spec |-> i, run |-> run,
                                  file |-> issueFilename(results[i]),
                                  content |-> report_])
  /\ cb' = [cb EXCEPT ![i] = "git"]
  /\ UNCHANGED <<results, head, branches, index, commits, currentBranch,
                 run, atStart, gitLog, bailed>>
  /\ UNCHANGED strudyVars

\* Lines 86-89: the four execSync calls, which nothing interleaves with.
\* `git checkout -b` fails when the branch exists and execSync throws. The
\* commit records the staged file on the new branch; checking out the
\* original branch takes the files only the new branch tracks out of the
\* working tree.
Git(i) ==
  /\ cb[i] = "git"
  /\ LET moniker == issueMoniker(results[i])
         file == issueFilename(results[i])
         Cmd(c) == [cmd |-> c, spec |-> i, run |-> run]
     IN
     IF moniker \in DOMAIN branches
     THEN /\ gitLog' = Append(gitLog, Cmd("checkout -b (failed)"))
          /\ cb' = [cb EXCEPT ![i] = "threw"]
          /\ UNCHANGED <<issueFs, head, branches, index, commits>>
     ELSE LET tree == branches[head] \cup index \cup {file} IN
          /\ branches' = [b \in DOMAIN branches \cup {moniker} |->
                            IF b = moniker THEN tree ELSE branches[b]]
          /\ commits' = Append(commits, [branch |-> moniker, files |-> index \cup {file},
                                         title |-> results[i].title])
          /\ index' = {}
          /\ head' = currentBranch
          /\ issueFs' = [f \in DOMAIN issueFs |->
                           IF f \in tree \ branches[currentBranch]
                           THEN Absent ELSE issueFs[f]]
          /\ gitLog' = gitLog \o <<Cmd("checkout -b"), Cmd("add"), Cmd("commit"),
                                   Cmd("checkout")>>
          /\ cb' = [cb EXCEPT ![i] = "done"]
  /\ UNCHANGED <<results, currentBranch, run, atStart, writes, bailed>>
  /\ UNCHANGED strudyVars

\* A callback threw: its promise is rejected and nothing handles it. Node
\* either only warns (the other callback goes on, one of the steps above) or
\* ends the process, which this step is.
UnhandledRejection ==
  /\ \E i \in DOMAIN cb : cb[i] = "threw"
  /\ \E i \in DOMAIN cb : Pending(i)
  /\ cb' = [i \in DOMAIN cb |-> IF Pending(i) THEN "killed" ELSE cb[i]]
  /\ UNCHANGED <<results, issueFs, head, branches, index, commits, currentBranch,
                 run, atStart, writes, gitLog, bailed>>
  /\ UNCHANGED strudyVars

StrudyIdle ==
  /\ options = [format |-> Unset, diff |-> Unset, spec |-> NoPath, dep |-> FALSE,
                onlynew |-> FALSE, perissue |-> FALSE, tr |-> NoPath]
  /\ report = NoPath
  /\ readable = {}
  /\ fileContent = null
  /\ pc = "idle"
  /\ edReport = NoPath
  /\ trReport = NoPath
  /\ study = null
  /\ res = null
  /\ calls = <<>>
  /\ stdout = <<>>
  /\ stderr = <<>>
  /\ exitCode = Running

InitIssues ==
  /\ results \in UNION { ResultsOfLen(n) : n \in 1..MaxSpecs }
  /\ issueFs \in [Filenames(results) -> {Absent, Folder, OldFile}]
  /\ head = <<"main">>
  /\ branches = [b \in {<<"main">>} |-> {}]
  /\ index = {}
  /\ commits = <<>>
  /\ currentBranch = NoPath
  /\ cb = <<>>
  /\ run = 0
  /\ atStart = [issueFs |-> issueFs, branches |-> branches, commits |-> commits]
  /\ writes = <<>>
  /\ gitLog = <<>>
  /\ bailed = {}
  /\ StrudyIdle

NextIssues ==
  \/ Main
  \/ \E i \in DOMAIN cb : StatDone(i)
  \/ \E i \in DOMAIN cb : WriteDone(i)
  \/ \E i \in DOMAIN cb : Git(i)
  \/ UnhandledRejection

SpecIssues == InitIssues /\ [][NextIssues]_vars

(***************************************************************************)
(* Claims about strudy.js                                                  *)
(***************************************************************************)
DepAndDiff == options.dep /\ Truthy(options.diff)
NotMarkdown == Truthy(options.format) /\ options.format # "markdown"
Started == pc # "start"
Completed == pc = "done"
MsgNoReport == "Could not find/access crawl/study report"
MsgNoTr == "Could not find/access TR crawl report"
Reported(msg) == \E i \in 1..Len(stderr) : stderr[i] = msg

\* C1: a run with both --diff and --dep set ends with exit code 2 right after
\* option validation: no file system access, no sniffing, no loading, no
\* studyCrawl, no generateReport, nothing on standard output.
C1_DepDiffRejected ==
  (DepAndDiff /\ Started) =>
    /\ pc = "exited"
    /\ exitCode = <<2>>
    /\ Len(stderr) = 1
    /\ calls = <<>>
    /\ stdout = <<>>
    /\ study = null
    /\ res = null

\* C1 witness: the --dep/--diff check itself is the one that rejected the run.
C1_Witness ==
  /\ DepAndDiff
  /\ pc = "exited"
  /\ stderr = <<"The --dep and --diff options cannot both be set">>

\* C2: a report that is a study is never handed to studyCrawl and is used as
\* loaded; a report that is a crawl is handed to studyCrawl exactly once in a
\* run that completes.
C2_StudyUsedAsIs ==
  /\ fileContent.type = "study" =>
       /\ Called("studyCrawl") = {}
       /\ Completed => res.study = requireFromWorkingDirectory(fileContent)
  /\ (fileContent.type = "crawl" /\ Completed) =>
       Cardinality(Called("studyCrawl")) = 1

\* C3: for a folder the report used is <report>/ed/index.json when that file
\* exists, else <report>/index.json when that file exists, and the run fails
\* with "Could not find/access crawl/study report" only when neither is
\* accessible; a <report> ending in .json is used itself.
ExpectedReport ==
  IF EndsWithJson(report) THEN (IF exists(report) THEN report ELSE NoPath)
  ELSE IF exists(Join(Join(report, <<"ed">>), IndexJson))
    THEN Join(Join(report, <<"ed">>), IndexJson)
  ELSE IF exists(Join(report, IndexJson)) THEN Join(report, IndexJson)
  ELSE NoPath

Resolved ==
  pc \in {"existsTr", "sniff", "studyCrawl", "generate", "pandoc", "done"}
    \/ Reported(MsgNoTr)

C3_ReportResolution ==
  /\ Resolved => edReport = ExpectedReport
  /\ Reported(MsgNoReport) => (exitCode = <<2>> /\ ExpectedReport = NoPath)
  /\ (ExpectedReport = NoPath /\ pc \in {"exited", "done"} /\ ValidationError(options) = Unset)
       => Reported(MsgNoReport)

\* C4: a run with --diff or --dep whose --format is set to something other
\* than "markdown" is rejected with exit code 2 before any report is looked
\* for; so generation of a diff or dependencies report has --format unset or
\* "markdown".
C4_DiffDepMarkdownOnly ==
  /\ ((Truthy(options.diff) \/ options.dep) /\ NotMarkdown /\ Started) =>
       (exitCode = <<2>> /\ calls = <<>>)
  /\ ((Truthy(options.diff) \/ options.dep) /\ Called("generateReport") # {}) =>
       ~NotMarkdown

\* C5: standard output is written at most once, only when resolution,
\* analysis and generation are over; a run that ends on an option or
\* report-access failure reports once on the error stream, exits with 2,
\* checks no path twice, runs no analysis or generation, and has written
\* nothing to standard output.
NoRetry ==
  \A i, j \in Called("exists") : calls[i].arg = calls[j].arg => i = j

WantsReport ==
  Truthy(options.diff) \/ options.dep
    \/ (Truthy(options.format) /\ options.format # "json")

C5_Atomic ==
  /\ Len(stdout) <= 1
  /\ stdout # <<>> =>
       /\ Completed
       /\ stdout = <<res>>
       /\ stderr = <<>>
       /\ exists(edReport)
       /\ study # null
       /\ res.study = study
       /\ WantsReport <=> Called("generateReport") # {}
       /\ options.format = "html" /\ ~Truthy(options.diff) /\ ~options.dep
            <=> Called("pandoc") # {}
  /\ (ValidationError(options) # Unset /\ Started) => exitCode = <<2>>
  /\ (Reported(MsgNoReport) \/ Reported(MsgNoTr)) => exitCode = <<2>>
  /\ exitCode = <<2>> =>
       /\ pc = "exited"
       /\ Len(stderr) = 1
       /\ stdout = <<>>
       /\ NoRetry
       /\ Called("isStudyReport") = {}
       /\ Called("require") = {}
       /\ Called("studyCrawl") = {}
       /\ Called("generateReport") = {}
       /\ study = null
       /\ res = null

\* C5 witness: a run that passed validation and found the report, then failed
\* on the TR report.
C5_Witness ==
  /\ pc = "exited"
  /\ exitCode = <<2>>
  /\ stderr = <<MsgNoTr>>
  /\ Len(calls) >= 2

\* C6: with a --spec allow-list other than "all", the study printed or handed
\* to report generation holds only specifications the list selects, whether
\* <report> is a crawl or a study.
Restricting ==
  /\ TruthyPath(options.spec)
  /\ \A i \in 1..Len(options.spec) : options.spec[i] # "all"

C6_AllowListApplied ==
  Restricting =>
    /\ \A i \in Called("generateReport") :
         calls[i].arg.study.results \subseteq Selected(options.spec)
    /\ Completed => res.study.results \subseteq Selected(options.spec)

(***************************************************************************)
(* Claims about the issue script                                           *)
(***************************************************************************)
AllExcluded(specResult) ==
  \/ "brokenLinks" \notin DOMAIN specResult
  \/ \A j \in 1..Len(specResult.brokenLinks) :
       match(specResult.brokenLinks[j], TRPattern)

WrittenFor(k) == { w \in 1..Len(writes) : writes[w].spec = k }
GitFor(k) == { g \in 1..Len(gitLog) : gitLog[g].spec = k }
CommitsOn(moniker) == { c \in 1..Len(commits) : commits[c].branch = moniker }
Present(fs) == { f \in DOMAIN fs : fs[f] # Absent }

\* C7: no issue file the script writes lists a link matching w3.org/TR/, and
\* a specification whose broken links all match (or that has no brokenLinks)
\* gets no issue file, no branch, no commit and no git command.
C7_ExcludedLinksNeverReported ==
  /\ \A w \in 1..Len(writes) :
       \A j \in 1..Len(writes[w].content.links) :
         ~match(writes[w].content.links[j], TRPattern)
  /\ \A k \in 1..Len(results) :
       AllExcluded(results[k]) =>
         /\ WrittenFor(k) = {}
         /\ GitFor(k) = {}
         /\ issueMoniker(results[k]) \notin DOMAIN branches
         /\ CommitsOn(issueMoniker(results[k])) = {}
         /\ issueFs[issueFilename(results[k])] = atStart.issueFs[issueFilename(results[k])]

\* C7 witness: an issue was written and committed for a specification with an
\* excluded and a reportable link, listing only the reportable one, while a
\* specification with only excluded links was passed over.
C7_Witness ==
  /\ \E w \in 1..Len(writes) :
       /\ results[writes[w].spec].brokenLinks = <<TRLink, EDLink>>
       /\ writes[w].content.links = <<EDLink>>
       /\ CommitsOn(issueMoniker(results[writes[w].spec])) # {}
  /\ \E k \in DOMAIN cb :
       /\ "brokenLinks" \in DOMAIN results[k]
       /\ AllExcluded(results[k])
       /\ cb[k] = "done"

\* C8: once a first run of the script is over, every specification of the
\* results with a reportable broken link, whose issue file did not exist and
\* for which no pull request matches, has its issue file written and
\* committed on a branch named after it.
Filed(k) ==
  /\ WrittenFor(k) # {}
  /\ issueMoniker(results[k]) \in DOMAIN branches
  /\ \E c \in CommitsOn(issueMoniker(results[k])) :
       issueFilename(results[k]) \in commits[c].files

C8_EveryEligibleSpecFiled ==
  (run = 1 /\ Settled) =>
    \A k \in 1..Len(results) :
      ( /\ ~AllExcluded(results[k])
        /\ atStart.issueFs[issueFilename(results[k])] = Absent
        /\ Len(pullrequests(issueMoniker(results[k]))) = 0 )
      => Filed(k)

\* C9: a callback that finds its issue path taken writes nothing, runs no git
\* command and leaves the path as it was; and a second run of the script over
\* the same results adds no file, no branch and no commit.
C9_ExistingIssueUntouched ==
  /\ \A i \in bailed :
       /\ { w \in WrittenFor(i) : writes[w].run = run } = {}
       /\ { g \in GitFor(i) : gitLog[g].run = run } = {}
       /\ issueFs[issueFilename(results[i])] = atStart.issueFs[issueFilename(results[i])]
  /\ run >= 2 =>
       /\ Present(issueFs) \subseteq Present(atStart.issueFs)
       /\ DOMAIN branches = DOMAIN atStart.branches
       /\ Len(commits) = Len(atStart.commits)

====
